---- MODULE Spec2Model ----
(***************************************************************************)
(* Model of the natural-language-to-SQL service: the POST /query handler   *)
(* and generateSQL, with the LLM provider and the database as opaque       *)
(* collaborators that answer nondeterministically.                         *)
(***************************************************************************)
EXTENDS Integers, Sequences, FiniteSets, TLC

VARIABLES pc, nlQuery, llmCalls, llmOut, genResult, sqlQuery, dbCalls, dbOut, resp,
          serving

vars == <<pc, nlQuery, llmCalls, llmOut, genResult, sqlQuery, dbCalls, dbOut, resp, serving>>

(* ---------------------------- bounds ----------------------------------- *)
NumReq == 2
MaxPieces == 4
MaxInner == 3

Req == 1..NumReq

(* ------------------------- JavaScript values --------------------------- *)
Undefined == [t |-> "undefined"]
Null == [t |-> "null"]
Str(s) == [t |-> "string", v |-> s]
Num(n) == [t |-> "number", v |-> n]

IsNonEmptyString(x) == x.t = "string" /\ Len(x.v) > 0

\* a loose-equality null test: only undefined and null are rejected
TruthyNotNullish(x) == x.t \notin {"undefined", "null"}

\* a strict undefined test: only an absent value is rejected
TruthyOnlyDefined(x) == x.t # "undefined"

\* JavaScript ToBoolean, as used by the negations of nlQuery and sqlQuery
Truthy(x) ==
  CASE x.t = "undefined" -> FALSE
    [] x.t = "null"      -> FALSE
    [] x.t = "string"    -> Len(x.v) > 0
    [] x.t = "number"    -> x.v # 0
    [] OTHER             -> TRUE

\* JavaScript ToJsString, as applied by the template literal
ToJsString(x) ==
  CASE x.t = "undefined" -> <<"u","n","d","e","f","i","n","e","d">>
    [] x.t = "null"      -> <<"n","u","l","l">>
    [] x.t = "string"    -> x.v
    [] x.t = "number"    -> IF x.v = 0 THEN <<"0">> ELSE <<"7">>
    [] OTHER             -> <<"?">>

(* ------------------------------ strings -------------------------------- *)
\* strings are sequences of one-character strings
WS == {" ", "\n"}

RECURSIVE TrimStart(_)
TrimStart(s) ==
  IF s # <<>> /\ Head(s) \in WS THEN TrimStart(Tail(s)) ELSE s

RECURSIVE TrimEnd(_)
TrimEnd(s) ==
  IF s # <<>> /\ s[Len(s)] \in WS THEN TrimEnd(SubSeq(s, 1, Len(s) - 1)) ELSE s

\* String.prototype.trim
Trim(s) == TrimEnd(TrimStart(s))

\* case folding of the /i flag
Lower(c) ==
  CASE c = "S" -> "s"
    [] c = "Q" -> "q"
    [] c = "L" -> "l"
    [] OTHER   -> c

\* the backquote character (the lexer accepts no backquote inside a string)
BT == "BQ"

FenceAt(s) == Len(s) >= 3 /\ s[1] = BT /\ s[2] = BT /\ s[3] = BT

FenceSqlAt(s) ==
  /\ Len(s) >= 6
  /\ FenceAt(s)
  /\ Lower(s[4]) = "s" /\ Lower(s[5]) = "q" /\ Lower(s[6]) = "l"

\* first replace: every opening fence with the sql tag, any case, leftmost non-overlapping
RECURSIVE RemoveFenceSql(_)
RemoveFenceSql(s) ==
  IF Len(s) < 6 THEN s
  ELSE IF FenceSqlAt(s) THEN RemoveFenceSql(SubSeq(s, 7, Len(s)))
  ELSE <<Head(s)>> \o RemoveFenceSql(Tail(s))

\* a replace without the global flag: only the first fence is removed
RECURSIVE RemoveFirstFence(_)
RemoveFirstFence(s) ==
  IF Len(s) < 3 THEN s
  ELSE IF FenceAt(s) THEN SubSeq(s, 4, Len(s))
  ELSE <<Head(s)>> \o RemoveFirstFence(Tail(s))

\* second replace: every remaining run of three backquotes
RECURSIVE RemoveFence(_)
RemoveFence(s) ==
  IF Len(s) < 3 THEN s
  ELSE IF FenceAt(s) THEN RemoveFence(SubSeq(s, 4, Len(s)))
  ELSE <<Head(s)>> \o RemoveFence(Tail(s))

\* the "Clean up markdown formatting" chain
CleanSQL(text) == Trim(RemoveFence(RemoveFenceSql(text)))

(* ------------------------- provider and database ----------------------- *)
NoOut == [kind |-> "none"]
LlmThrow == [kind |-> "throw"]
LlmAbsent == [kind |-> "absent"]
LlmText(s) == [kind |-> "text", text |-> s]

schemaDescription == <<"<schema>">>

\* the template literal joining the schema and the user text
Prompt(q) == schemaDescription \o <<"\n","U","s","e","r",":"," ">> \o ToJsString(q)

\* generateSQL whose catch block returns the error message instead of null
GenerateSQLLeaksError(out) ==
  IF out.kind = "throw" THEN Str(<<"E", "N", "E", "T">>)
  ELSE LET text == IF out.kind = "text" THEN Trim(out.text) ELSE <<>>
       IN  IF text = <<>> THEN Null ELSE Str(CleanSQL(text))

\* generateSQL, from the settled axios call to its return value
GenerateSQL(out) ==
  IF out.kind = "throw" THEN Null
  ELSE LET text == IF out.kind = "text" THEN Trim(out.text) ELSE <<>>
       IN  IF text = <<>> THEN Null ELSE Str(CleanSQL(text))


(* ------------------------------- inputs -------------------------------- *)
FenceSql == <<BT, BT, BT, "s", "q", "l">>
FenceSqlUpper == <<BT, BT, BT, "S", "q", "L">>
Fence == <<BT, BT, BT>>

\* request bodies: nlQuery absent, null, empty, zero, two questions, a number
NlQueryValues ==
  {Undefined, Null, Str(<<>>), Num(0), Str(<<"a">>), Str(<<"b">>), Num(7)}

\* representative provider texts for the concurrent specification
ProviderTexts ==
  { <<>>, <<" ">>, Fence, FenceSql \o Fence, <<"x">>,
    <<"\n">> \o FenceSql \o <<"\n", "x", "\n">> \o Fence \o <<"\n">>,
    <<BT, "y", BT>> }

ProviderOutcomes == {LlmThrow, LlmAbsent} \cup {LlmText(s) : s \in ProviderTexts}

\* provider texts for the fence specification: every concatenation of at most
\* MaxPieces pieces, and every text of at most MaxInner pieces wrapped in an
\* opening sql fence line and a closing fence line, with or without
\* whitespace around the whole
Pieces == {FenceSql, FenceSqlUpper, Fence, <<BT>>, <<"\n">>, <<"x">>}

RECURSIVE TextsOf(_)
TextsOf(n) ==
  IF n = 0 THEN {<<>>}
  ELSE LET prev == TextsOf(n - 1)
       IN  prev \cup {p \o t : p \in Pieces, t \in prev}

Wrap(before, inner, after) ==
  before \o FenceSql \o <<"\n">> \o inner \o <<"\n">> \o Fence \o after

WrappedTexts ==
  {Wrap(b, inner, a) : b \in {<<>>, <<" ">>}, inner \in TextsOf(MaxInner), a \in {<<>>, <<"\n">>}}

FenceTexts == TextsOf(MaxPieces) \cup WrappedTexts

FenceOutcomes == {LlmThrow, LlmAbsent} \cup {LlmText(s) : s \in FenceTexts}

Row1 == [id |-> 1]
Row2 == [id |-> 2]
Fields == <<"id">>
RowSets == {<<>>, <<Row2, Row1>>}
DbErrors == {"ER_PARSE_ERROR", "ECONNREFUSED"}

DbRows(rows) == [kind |-> "rows", result |-> <<rows, Fields>>]
DbError(m) == [kind |-> "error", message |-> m]
DbOutcomes == {DbRows(rows) : rows \in RowSets} \cup {DbError(m) : m \in DbErrors}

(* ------------------------------ responses ------------------------------ *)
MissingQuery == [status |-> 400, body |-> [error |-> "Missing natural query"]]
GenerationFailed == [status |-> 500, body |-> [error |-> "AI failed to generate SQL"]]

\* a destructuring that takes the field metadata instead of the rows
RowsOfFields(result) == result[2]

\* const [rows] = await db.query(sqlQuery)
RowsOf(result) == result[1]

Success(sql, result) ==
  [status |-> 200, body |-> [sql |-> sql, result |-> RowsOf(result)]]

\* an execution failure that hides the driver message
ExecutionFailedMasked(message, sql) ==
  [status |-> 500,
   body |-> [error |-> "SQL Execution Failed", details |-> "Internal error", sql |-> sql]]

ExecutionFailed(message, sql) ==
  [status |-> 500,
   body |-> [error |-> "SQL Execution Failed", details |-> message, sql |-> sql]]

(* ------------------------------- state --------------------------------- *)
Init ==
  /\ pc = [r \in Req |-> "idle"]
  /\ nlQuery = [r \in Req |-> Undefined]
  /\ llmCalls = [r \in Req |-> <<>>]
  /\ llmOut = [r \in Req |-> NoOut]
  /\ genResult = [r \in Req |-> Undefined]
  /\ sqlQuery = [r \in Req |-> Undefined]
  /\ dbCalls = [r \in Req |-> <<>>]
  /\ dbOut = [r \in Req |-> NoOut]
  /\ resp = [r \in Req |-> <<>>]
  /\ serving = TRUE

\* the handler without the return after the 400 response
ReceiveNoReturn(r, v) ==
  /\ serving
  /\ pc[r] = "idle"
  /\ nlQuery' = [nlQuery EXCEPT ![r] = v]
  /\ resp' = IF ~Truthy(v) THEN [resp EXCEPT ![r] = Append(@, MissingQuery)] ELSE resp
  /\ llmCalls' = [llmCalls EXCEPT ![r] = Append(@, Prompt(v))]
  /\ pc' = [pc EXCEPT ![r] = "awaitAxios"]
  /\ UNCHANGED <<llmOut, genResult, sqlQuery, dbCalls, dbOut, serving>>

\* the handler without the await on generateSQL: the pending promise is
\* truthy and goes straight to db.query
ReceiveNoAwait(r, v) ==
  /\ serving
  /\ pc[r] = "idle"
  /\ nlQuery' = [nlQuery EXCEPT ![r] = v]
  /\ IF ~Truthy(v)
     THEN /\ resp' = [resp EXCEPT ![r] = Append(@, MissingQuery)]
          /\ pc' = [pc EXCEPT ![r] = "done"]
          /\ UNCHANGED <<llmCalls, sqlQuery, dbCalls>>
     ELSE /\ llmCalls' = [llmCalls EXCEPT ![r] = Append(@, Prompt(v))]
          /\ sqlQuery' = [sqlQuery EXCEPT ![r] = [t |-> "promise"]]
          /\ dbCalls' = [dbCalls EXCEPT ![r] = Append(@, [t |-> "promise"])]
          /\ pc' = [pc EXCEPT ![r] = "awaitDb"]
          /\ UNCHANGED resp
  /\ UNCHANGED <<llmOut, genResult, dbOut, serving>>

\* a server that handles one request at a time: a request is taken up only
\* when no other is in flight
ReceiveSerialized(r, v) ==
  /\ serving
  /\ pc[r] = "idle"
  /\ \A q \in Req \ {r} : pc[q] \in {"idle", "done"}
  /\ nlQuery' = [nlQuery EXCEPT ![r] = v]
  /\ IF ~Truthy(v)
     THEN /\ resp' = [resp EXCEPT ![r] = Append(@, MissingQuery)]
          /\ pc' = [pc EXCEPT ![r] = "done"]
          /\ UNCHANGED llmCalls
     ELSE /\ llmCalls' = [llmCalls EXCEPT ![r] = Append(@, Prompt(v))]
          /\ pc' = [pc EXCEPT ![r] = "awaitAxios"]
          /\ UNCHANGED resp
  /\ UNCHANGED <<llmOut, genResult, sqlQuery, dbCalls, dbOut, serving>>

\* app.post("/query"): from the arrival of the request to the first await
Receive(r, v) ==
  /\ serving
  /\ pc[r] = "idle"
  /\ nlQuery' = [nlQuery EXCEPT ![r] = v]
  /\ IF ~Truthy(v)
     THEN /\ resp' = [resp EXCEPT ![r] = Append(@, MissingQuery)]
          /\ pc' = [pc EXCEPT ![r] = "done"]
          /\ UNCHANGED llmCalls
     ELSE /\ llmCalls' = [llmCalls EXCEPT ![r] = Append(@, Prompt(v))]
          /\ pc' = [pc EXCEPT ![r] = "awaitAxios"]
          /\ UNCHANGED resp
  /\ UNCHANGED <<llmOut, genResult, sqlQuery, dbCalls, dbOut, serving>>

\* generateSQL without its try/catch: a rejected axios.post is an unhandled
\* rejection of the handler's promise, which ends the process
AxiosSettlesNoCatch(r, out) ==
  /\ serving
  /\ pc[r] = "awaitAxios"
  /\ llmOut' = [llmOut EXCEPT ![r] = out]
  /\ IF out.kind = "throw"
     THEN /\ serving' = FALSE
          /\ UNCHANGED <<genResult, pc>>
     ELSE /\ genResult' = [genResult EXCEPT ![r] = GenerateSQL(out)]
          /\ pc' = [pc EXCEPT ![r] = "awaitGenerate"]
          /\ UNCHANGED serving
  /\ UNCHANGED <<nlQuery, llmCalls, sqlQuery, dbCalls, dbOut, resp>>

\* generateSQL resumes when axios.post settles and runs to its return; the
\* process keeps serving whatever the outcome
AxiosSettles(r, out) ==
  /\ serving
  /\ pc[r] = "awaitAxios"
  /\ llmOut' = [llmOut EXCEPT ![r] = out]
  /\ genResult' = [genResult EXCEPT ![r] = GenerateSQL(out)]
  /\ pc' = [pc EXCEPT ![r] = "awaitGenerate"]
  /\ UNCHANGED <<nlQuery, llmCalls, sqlQuery, dbCalls, dbOut, resp, serving>>

\* a module-level result slot shared by all requests: the handler reads the
\* value of the highest-numbered request that has one
AwaitedShared(r) ==
  LET have == {q \in Req : pc[q] \in {"awaitGenerate", "awaitDb", "done"} /\ llmOut[q] # NoOut}
  IN  genResult[CHOOSE q \in have : \A p \in have : p <= q]

\* the value the handler's await receives: its own generateSQL promise
Awaited(r) == genResult[r]

\* the handler without the check of the generated SQL
HandlerResumesNoCheck(r) ==
  /\ serving
  /\ pc[r] = "awaitGenerate"
  /\ sqlQuery' = [sqlQuery EXCEPT ![r] = Awaited(r)]
  /\ dbCalls' = [dbCalls EXCEPT ![r] = Append(@, Awaited(r))]
  /\ pc' = [pc EXCEPT ![r] = "awaitDb"]
  /\ UNCHANGED <<nlQuery, llmCalls, llmOut, genResult, dbOut, resp, serving>>

\* the handler resumes with the generated SQL and runs to db.query
HandlerResumes(r) ==
  /\ serving
  /\ pc[r] = "awaitGenerate"
  /\ sqlQuery' = [sqlQuery EXCEPT ![r] = Awaited(r)]
  /\ IF ~Truthy(Awaited(r))
     THEN /\ resp' = [resp EXCEPT ![r] = Append(@, GenerationFailed)]
          /\ pc' = [pc EXCEPT ![r] = "done"]
          /\ UNCHANGED dbCalls
     ELSE /\ dbCalls' = [dbCalls EXCEPT ![r] = Append(@, Awaited(r))]
          /\ pc' = [pc EXCEPT ![r] = "awaitDb"]
          /\ UNCHANGED resp
  /\ UNCHANGED <<nlQuery, llmCalls, llmOut, genResult, dbOut, serving>>

\* the handler with one retry of a failed db.query
DbSettlesRetry(r, out) ==
  /\ serving
  /\ pc[r] = "awaitDb"
  /\ dbOut' = [dbOut EXCEPT ![r] = out]
  /\ IF out.kind = "error" /\ Len(dbCalls[r]) < 2
     THEN /\ dbCalls' = [dbCalls EXCEPT ![r] = Append(@, sqlQuery[r])]
          /\ UNCHANGED <<resp, pc>>
     ELSE /\ resp' = [resp EXCEPT ![r] =
                        Append(@, IF out.kind = "rows"
                                  THEN Success(sqlQuery[r], out.result)
                                  ELSE ExecutionFailed(out.message, sqlQuery[r]))]
          /\ pc' = [pc EXCEPT ![r] = "done"]
          /\ UNCHANGED dbCalls
  /\ UNCHANGED <<nlQuery, llmCalls, llmOut, genResult, sqlQuery, serving>>

\* the handler reporting the raw provider text instead of the SQL it ran
DbSettlesReportsRawText(r, out) ==
  /\ serving
  /\ pc[r] = "awaitDb"
  /\ dbOut' = [dbOut EXCEPT ![r] = out]
  /\ resp' = [resp EXCEPT ![r] =
                Append(@, IF out.kind = "rows"
                          THEN Success(Str(llmOut[r].text), out.result)
                          ELSE ExecutionFailed(out.message, Str(llmOut[r].text)))]
  /\ pc' = [pc EXCEPT ![r] = "done"]
  /\ UNCHANGED <<nlQuery, llmCalls, llmOut, genResult, sqlQuery, dbCalls, serving>>

\* the handler resumes when db.query settles and sends the final response
DbSettles(r, out) ==
  /\ serving
  /\ pc[r] = "awaitDb"
  /\ dbOut' = [dbOut EXCEPT ![r] = out]
  /\ resp' = [resp EXCEPT ![r] =
                Append(@, IF out.kind = "rows"
                          THEN Success(sqlQuery[r], out.result)
                          ELSE ExecutionFailed(out.message, sqlQuery[r]))]
  /\ pc' = [pc EXCEPT ![r] = "done"]
  /\ UNCHANGED <<nlQuery, llmCalls, llmOut, genResult, sqlQuery, dbCalls, serving>>

(* --------------------------- specifications ---------------------------- *)
ReceiveAny == \E r \in Req, v \in NlQueryValues : Receive(r, v)
AxiosSettlesAny == \E r \in Req, out \in ProviderOutcomes : AxiosSettles(r, out)
HandlerResumesAny == \E r \in Req : HandlerResumes(r)
DbSettlesAny == \E r \in Req, out \in DbOutcomes : DbSettles(r, out)

Next == ReceiveAny \/ AxiosSettlesAny \/ HandlerResumesAny \/ DbSettlesAny

Spec == Init /\ [][Next]_vars

\* one request, with the provider text drawn from the fence texts
FenceReceive == \E v \in {Undefined, Str(<<"a">>)} : Receive(1, v)
FenceAxiosSettles == \E out \in FenceOutcomes : AxiosSettles(1, out)
FenceHandlerResumes == HandlerResumes(1)
FenceDbSettles == \E out \in DbOutcomes : DbSettles(1, out)

NextFence == FenceReceive \/ FenceAxiosSettles \/ FenceHandlerResumes \/ FenceDbSettles

SpecFence == Init /\ [][NextFence]_vars

TypeOK ==
  /\ pc \in [Req -> {"idle", "awaitAxios", "awaitGenerate", "awaitDb", "done"}]
  /\ \A r \in Req : Len(resp[r]) <= 1 /\ Len(llmCalls[r]) <= 1 /\ Len(dbCalls[r]) <= 1


(* ------------------------------- claims -------------------------------- *)
Started(r) == pc[r] # "idle"
Done(r) == pc[r] = "done"

\* the request body has no nlQuery: the field is absent or the empty string
MissingNlQuery(v) == v.t = "undefined" \/ (v.t = "string" /\ v.v = <<>>)

\* C1: a request whose nlQuery is absent or empty is answered with status 400
\* and the body {error: "Missing natural query"}, and neither the LLM call nor
\* the database call is ever made for it.
C1_MissingQueryRejected ==
  \A r \in Req :
    (Started(r) /\ MissingNlQuery(nlQuery[r])) =>
      /\ Done(r)
      /\ resp[r] = <<MissingQuery>>
      /\ llmCalls[r] = <<>>
      /\ dbCalls[r] = <<>>

C1_Witness ==
  \E r \in Req :
    /\ Done(r) /\ nlQuery[r].t = "string" /\ nlQuery[r].v = <<>>
    /\ resp[r] = <<MissingQuery>>

\* the provider gave no usable text: the text is absent, or empty once trimmed
NoUsableText(out) ==
  out.kind = "absent" \/ (out.kind = "text" /\ \A i \in DOMAIN out.text : out.text[i] \in WS)

\* C2: when the provider text is absent or empty, db.query is never invoked
\* for that request and the response, once sent, is status 500 with the body
\* {error: "AI failed to generate SQL"}.
C2_GenerationFailureReported ==
  \A r \in Req :
    NoUsableText(llmOut[r]) =>
      /\ dbCalls[r] = <<>>
      /\ pc[r] \in {"awaitGenerate", "done"}
      /\ Done(r) => resp[r] = <<GenerationFailed>>
      /\ ~Done(r) => resp[r] = <<>>

C2_Witness ==
  \E r \in Req :
    /\ Done(r) /\ llmOut[r].kind = "text" /\ llmOut[r].text = <<" ">>
    /\ resp[r] = <<GenerationFailed>>

\* C3: the database call of a request is made only after its LLM call has
\* completed with generated SQL: never while generateSQL is pending, never
\* after it failed.
C3_DbAfterSuccessfulGeneration ==
  \A r \in Req :
    dbCalls[r] # <<>> =>
      /\ pc[r] \in {"awaitDb", "done"}
      /\ llmOut[r].kind = "text"
      /\ IsNonEmptyString(genResult[r])

C3_Witness ==
  \E r \in Req : pc[r] = "awaitDb" /\ Len(dbCalls[r]) = 1 /\ llmOut[r].kind = "text"

\* C4: when the database execution succeeds, the response is 200 with the
\* body {sql, result}: sql is the string generateSQL returned for the request,
\* result is the row set the database returned, same rows in the same order.
C4_SuccessBody ==
  \A r \in Req :
    (Done(r) /\ dbOut[r].kind = "rows") =>
      /\ genResult[r].t = "string"
      /\ resp[r] = <<[status |-> 200,
                      body |-> [sql |-> genResult[r], result |-> dbOut[r].result[1]]]>>

C4_Witness ==
  \E r \in Req :
    /\ Done(r) /\ dbOut[r].kind = "rows" /\ dbOut[r].result[1] = <<Row2, Row1>>
    /\ resp[r][1].status = 200

\* C5: when the database execution fails, the response is 500 with the body
\* {error: "SQL Execution Failed", details, sql}: details is the message of
\* the database error, unaltered, and sql is the generated SQL of the request.
C5_ExecutionFailureBody ==
  \A r \in Req :
    (Done(r) /\ dbOut[r].kind = "error") =>
      /\ genResult[r].t = "string"
      /\ resp[r] = <<[status |-> 500,
                      body |-> [error |-> "SQL Execution Failed",
                                details |-> dbOut[r].message,
                                sql |-> genResult[r]]]>>

C5_Witness ==
  \E r \in Req :
    /\ Done(r) /\ dbOut[r].kind = "error" /\ dbOut[r].message = "ER_PARSE_ERROR"
    /\ resp[r][1].status = 500

SameValue(x, y) == x.t = y.t /\ (x.t \in {"string", "number"} => x.v = y.v)

HasSql(r) == resp[r] # <<>> /\ "sql" \in DOMAIN resp[r][1].body

\* the SQL cleaned from the text the provider generated for request r
OwnSql(r) ==
  IF llmOut[r].kind = "text" THEN Str(CleanSQL(Trim(llmOut[r].text))) ELSE Null

\* C6: for two requests with different nlQuery values, under every
\* interleaving, the SQL a request executes and reports, and the rows it
\* reports, come from the text generated for that request and from its own
\* database call, never from the other request's.
C6_NoCrossContamination ==
  \A r, q \in Req :
    (r # q /\ Started(r) /\ Started(q) /\ ~SameValue(nlQuery[r], nlQuery[q])) =>
      /\ pc[r] = "awaitDb" =>
           /\ sqlQuery[r] = OwnSql(r)
           /\ dbCalls[r] = <<OwnSql(r)>>
      /\ HasSql(r) =>
           /\ resp[r][1].body.sql = OwnSql(r)
           /\ (llmOut[q].kind = "text" /\ OwnSql(q) # OwnSql(r)) =>
                resp[r][1].body.sql # OwnSql(q)
           /\ resp[r][1].status = 200 => resp[r][1].body.result = dbOut[r].result[1]

C6_Witness ==
  \E r, q \in Req :
    /\ r # q
    /\ nlQuery[r].t = "string" /\ nlQuery[q].t = "string" /\ nlQuery[r].v # nlQuery[q].v
    /\ pc[r] = "awaitDb" /\ pc[q] = "awaitDb"
    /\ Len(dbCalls[r]) = 1 /\ Len(dbCalls[q]) = 1
    /\ sqlQuery[r] # sqlQuery[q]

\* what the validation, the generator and the executor did for request r
FalsyInput(v) ==
  \/ v.t \in {"undefined", "null"}
  \/ v.t = "string" /\ v.v = <<>>
  \/ v.t = "number" /\ v.v = 0

GeneratorGaveSql(r) == genResult[r].t = "string" /\ genResult[r].v # <<>>

ExpectedOutcome(r) ==
  IF FalsyInput(nlQuery[r]) THEN <<400, {"error"}>>
  ELSE IF ~GeneratorGaveSql(r) THEN <<500, {"error"}>>
  ELSE IF dbOut[r].kind = "rows" THEN <<200, {"sql", "result"}>>
  ELSE <<500, {"error", "details", "sql"}>>

FenceLineAt(s, i) ==
  /\ FenceAt(SubSeq(s, i, Len(s)))
  /\ i = 1 \/ s[i - 1] \in WS

\* the text inside the fences of a wrapped provider text
InnerOf(t) == Trim(SubSeq(Trim(t), 8, Len(Trim(t)) - 4))

\* SQL wrapped in an opening sql fence line and a closing fence line, with
\* whitespace around: the inner text is not empty and none of its lines
\* starts with a fence, so the closing fence is the last line
WrappedSql(t) ==
  LET s == Trim(t)
  IN  /\ Len(s) >= 11
      /\ SubSeq(s, 1, 7) = FenceSql \o <<"\n">>
      /\ SubSeq(s, Len(s) - 3, Len(s)) = <<"\n">> \o Fence
      /\ InnerOf(t) # <<>>
      /\ \A i \in 1..Len(InnerOf(t)) : ~FenceLineAt(InnerOf(t), i)

\* C8: for a provider text that is SQL wrapped in an opening sql fence and a
\* closing fence, generateSQL returns exactly the trimmed inner text, that
\* string is the one passed to db.query, and cleaning it again changes nothing.
C8_FencedRoundTrip ==
  \A r \in Req :
    (llmOut[r].kind = "text" /\ WrappedSql(llmOut[r].text)) =>
      /\ genResult[r] = Str(InnerOf(llmOut[r].text))
      /\ pc[r] \in {"awaitDb", "done"} => dbCalls[r] = <<Str(InnerOf(llmOut[r].text))>>
      /\ CleanSQL(genResult[r].v) = genResult[r].v

\* C9: db.query is only ever called with a non-empty SQL string, whatever the
\* provider answered (no text, blank text, nothing but fence markers).
C9_ExecutedSqlNonEmpty ==
  \A r \in Req :
    \A i \in DOMAIN dbCalls[r] : IsNonEmptyString(dbCalls[r][i])

C9_Witness ==
  \E r \in Req :
    /\ Len(dbCalls[r]) = 1
    /\ llmOut[r].kind = "text"
    /\ FenceAt(Trim(llmOut[r].text))
    /\ dbCalls[r][1] = Str(<<"x">>)

\* C10: generateSQL is invoked, and the LLM called, only for requests whose
\* nlQuery is a non-empty string; every other request is rejected before the
\* generator.
C10_GeneratorOnlyForNonEmptyString ==
  \A r \in Req :
    /\ llmCalls[r] # <<>> => IsNonEmptyString(nlQuery[r])
    /\ (Started(r) /\ ~IsNonEmptyString(nlQuery[r])) => resp[r] = <<MissingQuery>>


\* some request has failed: client error, generation failure (a thrown LLM
\* error included) or execution failure
SomeFailure ==
  \E q \in Req :
    \/ llmOut[q].kind \in {"throw", "absent"}
    \/ dbOut[q].kind = "error"
    \/ resp[q] # <<>> /\ resp[q][1].status # 200

C12_NoRetry ==
  \A r \in Req :
    /\ Len(llmCalls[r]) <= 1
    /\ Len(dbCalls[r]) <= 1
    /\ llmOut[r].kind # "none" => llmCalls[r] = <<Prompt(nlQuery[r])>>
    /\ llmOut[r].kind \in {"throw", "absent"} => dbCalls[r] = <<>>
    /\ dbOut[r].kind # "none" => dbCalls[r] = <<genResult[r]>>

C12_Witness ==
  \E r, q \in Req :
    /\ r # q
    /\ Done(r) /\ dbOut[r].kind = "error" /\ Len(dbCalls[r]) = 1 /\ Len(llmCalls[r]) = 1
    /\ Done(q) /\ llmOut[q].kind = "throw" /\ Len(llmCalls[q]) = 1 /\ dbCalls[q] = <<>>


\* C13: generation errors are reported generically. Two handlings of the same
\* request (two requests with the same nlQuery, which share no state), one
\* whose LLM call throws and one whose LLM call returns an absent or empty
\* text, end with the identical response: status 500 and the same body.
C13_GenerationErrorsIndistinguishable ==
  \A r, q \in Req :
    ( /\ r # q
      /\ Done(r) /\ Done(q)
      /\ SameValue(nlQuery[r], nlQuery[q])
      /\ llmOut[r].kind = "throw"
      /\ NoUsableText(llmOut[q]) ) =>
      /\ resp[r] = resp[q]
      /\ Len(resp[r]) = 1
      /\ resp[r][1].status = 500

C13_Witness ==
  \E r, q \in Req :
    /\ r # q
    /\ Done(r) /\ Done(q)
    /\ nlQuery[r] = Str(<<"a">>) /\ nlQuery[q] = Str(<<"a">>)
    /\ llmOut[r].kind = "throw"
    /\ llmOut[q].kind = "text" /\ llmOut[q].text = <<>>
    /\ resp[r] = resp[q]


\* request q can take its next step while request r stays where it is
CanStep(q, r) ==
  CASE pc[q] = "idle" ->
         ENABLED (Receive(q, Str(<<"a">>)) /\ pc'[q] = "awaitAxios" /\ pc'[r] = pc[r])
    [] pc[q] = "awaitAxios" ->
         ENABLED (AxiosSettles(q, LlmText(<<"x">>)) /\ pc'[q] = "awaitGenerate" /\ pc'[r] = pc[r])
    [] pc[q] = "awaitGenerate" ->
         ENABLED (HandlerResumes(q) /\ pc'[q] \in {"awaitDb", "done"} /\ pc'[r] = pc[r])
    [] pc[q] = "awaitDb" ->
         ENABLED (DbSettles(q, DbRows(<<>>)) /\ pc'[q] = "done" /\ pc'[r] = pc[r])
    [] OTHER -> TRUE

C15_ReportedSqlIsExecutedSql ==
  \A r \in Req :
    HasSql(r) =>
      /\ Len(dbCalls[r]) = 1
      /\ resp[r][1].body.sql = dbCalls[r][1]
      /\ resp[r][1].status \in {200, 500}

C15_Witness ==
  \E r \in Req :
    /\ HasSql(r)
    /\ resp[r][1].status = 500
    /\ llmOut[r].kind = "text" /\ FenceAt(Trim(llmOut[r].text))
    /\ dbCalls[r] = <<Str(<<"x">>)>>
    /\ resp[r][1].body.sql = Str(<<"x">>)

\* s contains three backquotes in a row somewhere
HasFence(s) == \E i \in 1..Len(s) : FenceAt(SubSeq(s, i, Len(s)))

\* C16: whatever the provider text, a string returned by generateSQL neither
\* starts nor ends with whitespace and contains no run of three backquotes,
\* also when the text has several fences, adjacent runs of backquotes, or an
\* sql tag whose removal joins the backquotes around it.
C16_CleanedHasNoFence ==
  \A r \in Req :
    genResult[r].t = "string" =>
      /\ ~HasFence(genResult[r].v)
      /\ genResult[r].v # <<>> =>
           /\ genResult[r].v[1] \notin WS
           /\ genResult[r].v[Len(genResult[r].v)] \notin WS

C16_Witness ==
  \E r \in Req :
    /\ llmOut[r].kind = "text"
    /\ llmOut[r].text = <<BT, BT>> \o FenceSql \o <<BT>>
    /\ RemoveFenceSql(llmOut[r].text) = Fence
    /\ genResult[r] = Str(<<>>)

====
